---- MODULE Spec2Model ----
(***************************************************************************)
(* SteamIdlerManager (src/SteamIdler/app.ts): the idling-set scheduler and *)
(* its connection supervision, as a state machine.  One action per timer   *)
(* callback, client event or resolution of an awaited promise; the code    *)
(* that runs synchronously after such a resolution (up to the next await)  *)
(* is part of the same action.                                             *)
(***************************************************************************)
EXTENDS Integers, Sequences, FiniteSets, Bags, TLC

(* ---------------------------- bounds ---------------------------------- *)
MaxId == 2
MaxTarget == 2
MaxRem == 1
MaxRefresh == 2
MaxInFlight == 2
MaxListeners == 11
MaxTimers == 1
MaxRestarts == 1
MaxCalls == 2
MaxTicks == 2
MaxDrops == 2
MaxSet == 34
MaxRankRem == 2
MaxOwned == 7
MaxShared == 4
MaxBeyondCap == 1
MaxUncached == 2
MaxCount == 2

(* ----------------------- program constants ---------------------------- *)
DisplayLimit == 32
RestartThreshold == 2
maxReconnectAttempts == 10
None == 0 - 1

Ids == 1..MaxId
HoursValues == {1, 3}

(* --------------------------- sequences -------------------------------- *)
Range(s) == {s[k] : k \in 1..Len(s)}

Take(s, n) == SubSeq(s, 1, IF n < Len(s) THEN n ELSE Len(s))

(* the elements of s at the positions of I, in the order of s *)
KeepAt(s, I) ==
  [k \in 1..Cardinality(I) |-> s[CHOOSE i \in I : Cardinality({j \in I : j <= i}) = k]]

(* the first occurrence of each element of s *)
Dedup(s) == KeepAt(s, {k \in 1..Len(s) : \A j \in 1..(k - 1) : s[j] # s[k]})

(* cur, then the elements of add that are not in it, each once *)
AddAll(cur, add) == cur \o Dedup(SelectSeq(add, LAMBDA x : x \notin Range(cur)))

RECURSIVE SortedSeqOf(_)
SortedSeqOf(S) ==
  IF S = {} THEN <<>>
  ELSE LET m == CHOOSE x \in S : \A y \in S : x <= y
       IN <<m>> \o SortedSeqOf(S \ {m})

InjectiveSeqs(S) ==
  UNION {{s \in [1..n -> S] : \A a, b \in 1..n : a # b => s[a] # s[b]} : n \in 0..Cardinality(S)}

(* ------------------------ reward records ------------------------------ *)
IsNumber(x) == x # None

Badge(i, r, h) == [appid |-> i, rem |-> r, hours |-> h]

ApiFeeds ==
  UNION {{[k \in 1..Cardinality(S) |-> Badge(SortedSeqOf(S)[k], f[SortedSeqOf(S)[k]], None)] :
            f \in [S -> {None} \cup (0..MaxRem)]} : S \in SUBSET Ids}

CommunityFeeds ==
  UNION {{[k \in 1..Cardinality(S) |->
             Badge(SortedSeqOf(S)[k], f[SortedSeqOf(S)[k]][1], f[SortedSeqOf(S)[k]][2])] :
            f \in [S -> ({None} \cup (0..MaxRem)) \X ({None} \cup HoursValues)]} : S \in SUBSET Ids}

HasRemaining(b) == IsNumber(b.rem) /\ b.rem > 0

FilterRemaining(badges) == SelectSeq(badges, HasRemaining)

ApiRemainingCount(badges) == Len(FilterRemaining(badges))

PositiveIds(badges) == {badges[k].appid : k \in {j \in 1..Len(badges) : HasRemaining(badges[j])}}

MapSet(m, b) ==
  IF \E k \in 1..Len(m) : m[k].appid = b.appid
  THEN [k \in 1..Len(m) |-> IF m[k].appid = b.appid THEN b ELSE m[k]]
  ELSE Append(m, b)

MapGet(m, i) ==
  IF \E k \in 1..Len(m) : m[k].appid = i
  THEN m[CHOOSE k \in 1..Len(m) : m[k].appid = i]
  ELSE Badge(i, None, None)

RECURSIVE MapOf(_)
MapOf(badges) ==
  IF badges = <<>> THEN <<>>
  ELSE MapSet(MapOf(SubSeq(badges, 1, Len(badges) - 1)), badges[Len(badges)])

RECURSIVE MergeInto(_, _)
MergeInto(m, community) ==
  IF community = <<>> THEN m
  ELSE LET cb == Head(community)
           existing == MapGet(m, cb.appid)
           merged == Badge(cb.appid,
                           IF IsNumber(cb.rem) THEN cb.rem ELSE existing.rem,
                           IF IsNumber(cb.hours) THEN cb.hours ELSE existing.hours)
       IN MergeInto(MapSet(m, merged), Tail(community))

MergeCommunity(badges, community) ==
  IF community = <<>> THEN badges ELSE MergeInto(MapOf(badges), community)

(* a comparator that leaves the remaining count out *)
CompareWithoutRemaining(a, b) ==
  LET hA == IF IsNumber(a.hours) THEN a.hours ELSE None
      hB == IF IsNumber(b.hours) THEN b.hours ELSE None
  IN IF hB # hA THEN hB - hA
     ELSE a.appid - b.appid

(* a comparator without the tie-break on the appid *)
CompareWithoutAppid(a, b) ==
  LET hA == IF IsNumber(a.hours) THEN a.hours ELSE None
      hB == IF IsNumber(b.hours) THEN b.hours ELSE None
  IN IF hB # hA THEN hB - hA
     ELSE b.rem - a.rem

Compare(a, b) ==
  LET hA == IF IsNumber(a.hours) THEN a.hours ELSE None
      hB == IF IsNumber(b.hours) THEN b.hours ELSE None
  IN IF hB # hA THEN hB - hA
     ELSE IF b.rem # a.rem THEN b.rem - a.rem
     ELSE a.appid - b.appid

RECURSIVE InsertSorted(_, _)
InsertSorted(s, x) ==
  IF s = <<>> THEN <<x>>
  ELSE IF Compare(s[Len(s)], x) <= 0 THEN Append(s, x)
       ELSE Append(InsertSorted(SubSeq(s, 1, Len(s) - 1), x), s[Len(s)])

RECURSIVE SortBadges(_)
SortBadges(s) ==
  IF s = <<>> THEN <<>>
  ELSE InsertSorted(SortBadges(SubSeq(s, 1, Len(s) - 1)), s[Len(s)])

DirectHits(badges) ==
  LET sorted == SortBadges(FilterRemaining(badges))
  IN [k \in 1..Len(sorted) |-> sorted[k].appid]

PushNew(direct, extra) ==
  direct \o Dedup(SelectSeq(extra, LAMBDA x : x \notin Range(direct)))

(* what scanAllCardCapable can resolve with: the capable ids it found, in the *)
(* order its probes completed                                                *)
ScanResults == InjectiveSeqs(Ids)

(* fetchBadges resolved with one of feeds, and then, when the cookies are    *)
(* there and no badge shows a positive count, fetchCommunityBadges resolved: *)
(* the direct hits in order, and whether the community scan was deferred     *)
FetchResults(feeds, cookies) ==
  {<<DirectHits(b), FALSE>> : b \in {x \in feeds : ApiRemainingCount(x) # 0}}
  \cup (IF cookies
        THEN {<<DirectHits(MergeCommunity(b, c)), FALSE>> :
                b \in {x \in feeds : ApiRemainingCount(x) = 0}, c \in CommunityFeeds}
        ELSE {<<DirectHits(b), TRUE>> : b \in {x \in feeds : ApiRemainingCount(x) = 0}})

FetchResultsLoggedOn == [cookies \in BOOLEAN |-> FetchResults(ApiFeeds, cookies)]
FetchResultsNoSteamId == [cookies \in BOOLEAN |-> FetchResults({<<>>}, cookies)]

(* the remainingSet a refresh can compute from what fetchBadges resolved with *)
RemainingSets == {PositiveIds(b) : b \in ApiFeeds}

(* the ids that the badges behind a remainingSet can carry a count of zero *)
(* for; the other ids outside remainingSet have no count or no badge        *)
ZeroSets(remSet) ==
  {{b[k].appid : k \in {j \in 1..Len(b) : b[j].rem = 0}} :
     b \in {x \in ApiFeeds : PositiveIds(x) = remSet}}

OverThreshold(community) ==
  {community[k].appid : k \in {j \in 1..Len(community) :
      IsNumber(community[j].hours) /\ community[j].hours > RestartThreshold}}

(* what fetchCommunityBadges returned, as scheduleCommunityHoursRestarts reads it: *)
(* whether it is non-empty, and the ids whose hours_on_record exceed the threshold *)
CommunitySummaries == {<<c # <<>>, OverThreshold(c)>> : c \in CommunityFeeds}

(* ------------------------ scheduler helpers --------------------------- *)
(* the loop of chooseNextGames: a candidate outside cur is pushed and the *)
(* length is tested after the push, so one id is pushed whatever the     *)
(* limit                                                                 *)
ChooseLoop(cands, limit, cur, chosen) ==
  LET eligible == SelectSeq(cands, LAMBDA x : x \notin cur)
      room == limit - Len(chosen)
  IN chosen \o Take(eligible, IF room < 1 THEN 1 ELSE room)

chooseNextGames(cands, limit, cur) == ChooseLoop(cands, limit, Range(cur), <<>>)

SelectSeq2(s, keep) == SelectSeq(s, LAMBDA x : x \in keep)

(* an applyIdling that declares the whole set *)
IdlingListWhole(cur) == cur

IdlingList(cur) == Take(cur, DisplayLimit)


(* ------------------------------ state --------------------------------- *)
VARIABLES
  mainPc,                     \* position of main(): logOnWithRefresh, then start()
  running, currentIds, everRemaining, targetParallel,
  intervalHandle, connectivityMonitor, connecting, refreshToken, steamId64,
  webCookies, pendingPostCookieDiscovery, broadMode,
  steamID,                    \* client.steamID is set (the session is logged on)
  autoRelogin,                \* the client's native relogin is under way
  manualInFlight,             \* client.logOn calls of manualReconnect not yet answered
  manualListeners,            \* once('loggedOn') listeners registered by manualReconnect
  fallbackTimers,             \* pending 15 s timers of the disconnected handler
  restartTimers,              \* pending 3 s timers of the restart heuristic (their fullList)
  startDisc, webDisc,         \* discoverGames in flight for start() / the webSession handler
  refr,                       \* the refreshBadgeStatus invocations in flight (a bag)
  out,                        \* client.gamesPlayed calls made by the latest step
  gamesPlayedCalls,           \* number of client.gamesPlayed calls so far (up to MaxCalls)
  candidates,                 \* {candidates} of start() in the step where its
                              \* discoverGames resolved, {} in every other step
  removal,                    \* {[remainingSet, before]} of the refresh whose removal loop
                              \* the latest step ran (before: currentIds as the loop found
                              \* it), {} when it ran none
  reconnected,                \* the latest step is the client's loggedOn after a drop
  caught,                     \* the latest step ran the catch block of refreshBadgeStatus
  ranking,                    \* {} or the one ranking of badges the latest step made
  idsAtDrop,                  \* currentIds at the connection drop, while the session is down
  storeCategoryCache,         \* appid -> hasCards, for the ids probed so far
  cacheFile,                  \* {} while store-category-cache.json is missing, else {content}
  scans,                      \* the scanAllCardCapable invocation of each discovery, in detail
  ticks,                      \* refresh timer callbacks run so far (up to MaxTicks)
  drops                       \* connection drops so far (up to MaxDrops)

mainVars == <<mainPc, running, startDisc>>
optVars == <<targetParallel, refreshToken, steamId64>>
loopVars == <<intervalHandle, connectivityMonitor>>
flagVars == <<pendingPostCookieDiscovery, broadMode>>
connVars == <<connecting, steamID, autoRelogin, manualInFlight, manualListeners,
              fallbackTimers, idsAtDrop, drops>>
scanVars == <<storeCategoryCache, cacheFile, scans>>
obsVars == <<out, gamesPlayedCalls, candidates, removal, reconnected, caught, ranking>>

vars == <<mainVars, optVars, loopVars, flagVars, connVars, obsVars, scanVars, currentIds,
          everRemaining, webCookies, restartTimers, webDisc, refr, ticks>>

DefaultTarget == 20
EffTarget == IF targetParallel # 0 THEN targetParallel ELSE DefaultTarget

(* a discoverGames invocation: where it awaits, and its local direct *)
DiscOff == [pc |-> "off", direct |-> <<>>]
DiscStart == [pc |-> "fetch", direct |-> <<>>]
(* a refreshBadgeStatus invocation: where it awaits, whether it fetched the *)
(* community badges (the cookies were there), and its top-up discoverGames  *)
RefrStart == [pc |-> "fetch", fetched |-> FALSE, d |-> DiscOff, removed |-> {}]

(* the discoverGames invocations whose scanAllCardCapable is followed in detail *)
ScanOwners == {"start", "web"}
ScanIdle ==
  [pc |-> "idle", ordered |-> <<>>, idx |-> 0, inflight |-> {}, probed |-> {}, found |-> <<>>]

Init ==
  /\ mainPc = "new"
  /\ running = FALSE
  /\ currentIds = <<>>
  /\ everRemaining = {}
  /\ targetParallel \in 1..MaxTarget
  /\ intervalHandle = FALSE
  /\ connectivityMonitor = FALSE
  /\ connecting = FALSE
  /\ refreshToken = FALSE
  /\ steamId64 = FALSE
  /\ webCookies = FALSE
  /\ pendingPostCookieDiscovery = FALSE
  /\ broadMode = FALSE
  /\ steamID = FALSE
  /\ autoRelogin = FALSE
  /\ manualInFlight = 0
  /\ manualListeners = 0
  /\ fallbackTimers = 0
  /\ restartTimers = <<>>
  /\ startDisc = DiscOff
  /\ webDisc = DiscOff
  /\ refr = EmptyBag
  /\ out = <<>>
  /\ gamesPlayedCalls = 0
  /\ candidates = {}
  /\ removal = {}
  /\ reconnected = FALSE
  /\ caught = FALSE
  /\ ranking = {}
  /\ idsAtDrop = <<>>
  /\ ticks = 0
  /\ drops = 0
  /\ storeCategoryCache = <<>>
  /\ cacheFile = {}
  /\ scans = [k \in ScanOwners |-> ScanIdle]

(* client.gamesPlayed(list), once per element of lists, in order *)
Calls(lists) ==
  /\ out' = lists
  /\ gamesPlayedCalls' = IF gamesPlayedCalls + Len(lists) > MaxCalls THEN MaxCalls
                         ELSE gamesPlayedCalls + Len(lists)

Played(lists) ==
  Calls(lists) /\ removal' = {} /\ candidates' = {} /\ reconnected' = FALSE /\ caught' = FALSE
  /\ ranking' = {}

Repeat(n, x) == [k \in 1..n |-> x]

(* ---------------------------- discoverGames --------------------------- *)
(* An outcome of one resolution inside discoverGames: the invocation's new *)
(* state, the flags it writes, and, when it returns, its result.           *)
DiscOutcome(d, pend, broad, done, result) ==
  [d |-> d, pending |-> pend, broad |-> broad, done |-> done, result |-> result]

(* a broad-mode test that looks only at this discovery's direct hits *)
AfterMergeForgetful(direct, pend) ==
  LET broad == direct = <<>>
  IN IF Len(direct) < targetParallel /\ broad
     THEN DiscOutcome([pc |-> "scan", direct |-> direct], pend, broad, FALSE, <<>>)
     ELSE DiscOutcome(DiscOff, pend, broad, TRUE, Dedup(direct))

(* from the filter of the badges with remaining drops to the broad-mode test *)
AfterMerge(direct, pend) ==
  LET broad == broadMode \/ direct = <<>>
  IN IF Len(direct) < targetParallel /\ broad
     THEN DiscOutcome([pc |-> "scan", direct |-> direct], pend, broad, FALSE, <<>>)
     ELSE DiscOutcome(DiscOff, pend, broad, TRUE, Dedup(direct))

(* fetchBadges has resolved or thrown; with the cookies there and no positive *)
(* count, fetchCommunityBadges has resolved too (nothing is read or written   *)
(* between the two)                                                           *)
AfterFetch(d) ==
  (IF steamId64
   THEN {DiscOutcome(DiscOff, pendingPostCookieDiscovery, broadMode, TRUE, <<>>)}
   ELSE {})
  \cup
  {AfterMerge(fr[1], pendingPostCookieDiscovery \/ fr[2]) :
     fr \in IF steamId64 THEN FetchResultsLoggedOn[webCookies]
            ELSE FetchResultsNoSteamId[webCookies]}

(* scanAllCardCapable has resolved with one of extras, or has thrown, which *)
(* leaves direct as it would be with an empty extra                         *)
AfterScan(d, extras) ==
  {DiscOutcome(DiscOff, pendingPostCookieDiscovery, broadMode, TRUE,
               Dedup(PushNew(d.direct, extra)))
   : extra \in extras}

discoverGamesFrom(d, extras) ==
  IF d.pc = "fetch" THEN AfterFetch(d)
  ELSE IF d.pc = "scan" THEN AfterScan(d, extras)
  ELSE {}

(* discoverGames with the scan taken as a whole: any list of distinct owned *)
(* ids may come out of it                                                   *)
discoverGames(d) == discoverGamesFrom(d, IF steamId64 THEN ScanResults ELSE {<<>>})

(* --------------------------- main / start ----------------------------- *)
LogOnWithRefresh ==
  /\ mainPc = "new"
  /\ mainPc' = "logOn"
  /\ refreshToken' = TRUE
  /\ connecting' = TRUE
  /\ Played(<<>>)
  /\ UNCHANGED <<running, startDisc, targetParallel, steamId64, loopVars, flagVars,
                 steamID, autoRelogin, manualInFlight, manualListeners, fallbackTimers,
                 idsAtDrop, drops, currentIds, everRemaining, webCookies, restartTimers,
                 webDisc, refr, ticks>>
  /\ UNCHANGED scanVars

(* the client emits error during the first logOn: logOnWithRefresh rejects *)
InitialLogOnFails ==
  /\ mainPc = "logOn"
  /\ mainPc' = "fatal"
  /\ Played(<<>>)
  /\ UNCHANGED <<running, startDisc, optVars, loopVars, flagVars, connVars, currentIds,
                 everRemaining, webCookies, restartTimers, webDisc, refr, ticks>>
  /\ UNCHANGED scanVars

(* the once('loggedOn') listener of logOnWithRefresh; main() then calls start() *)
InitialLoggedOn ==
  /\ mainPc = "logOn"
  /\ ~steamID
  /\ steamID' = TRUE
  /\ steamId64' = TRUE
  /\ connecting' = FALSE
  /\ mainPc' = "ready"
  /\ Played(<<>>)
  /\ UNCHANGED <<running, startDisc, targetParallel, refreshToken, loopVars, flagVars,
                 autoRelogin, manualInFlight, manualListeners, fallbackTimers,
                 idsAtDrop, drops, currentIds, everRemaining, webCookies, restartTimers,
                 webDisc, refr, ticks>>
  /\ UNCHANGED scanVars

(* start() up to its first await: waitForCookies returns at once when the  *)
(* cookies are there, and discoverGames then awaits fetchBadges            *)
Start ==
  /\ mainPc = "ready"
  /\ ~running
  /\ running' = TRUE
  /\ IF webCookies
     THEN mainPc' = "discover" /\ startDisc' = DiscStart
     ELSE mainPc' = "waitCookies" /\ startDisc' = startDisc
  /\ Played(<<>>)
  /\ UNCHANGED <<optVars, loopVars, flagVars, connVars, currentIds,
                 everRemaining, webCookies, restartTimers, webDisc, refr, ticks>>
  /\ UNCHANGED scanVars

(* the 4 s timer of waitForCookies *)
WaitForCookiesTimeout ==
  /\ mainPc = "waitCookies"
  /\ mainPc' = "discover"
  /\ startDisc' = DiscStart
  /\ Played(<<>>)
  /\ UNCHANGED <<running, optVars, loopVars, flagVars, connVars, currentIds,
                 everRemaining, webCookies, restartTimers, webDisc, refr, ticks>>
  /\ UNCHANGED scanVars

(* start() without its early return on an empty candidate list *)
StartContinueNoEarlyReturn(list) ==
  /\ candidates' = {list}
  /\ removal' = {}
  /\ reconnected' = FALSE
  /\ caught' = FALSE
  /\ ranking' = {}
  /\ LET initial == chooseNextGames(list, EffTarget, currentIds)
         cur == AddAll(currentIds, initial)
     IN /\ mainPc' = "done"
        /\ currentIds' = cur
        /\ Calls(<<IdlingList(cur)>>)
        /\ intervalHandle' = TRUE
        /\ connectivityMonitor' = TRUE

(* start() after discoverGames has resolved with list *)
StartContinue(list) ==
  /\ candidates' = {list}
  /\ removal' = {}
  /\ reconnected' = FALSE
  /\ caught' = FALSE
  /\ ranking' = {}
  /\ IF list = <<>>
     THEN /\ mainPc' = "empty"
          /\ Calls(<<>>)
          /\ UNCHANGED <<currentIds, loopVars>>
     ELSE LET initial == chooseNextGames(list, EffTarget, currentIds)
              cur == AddAll(currentIds, initial)
          IN /\ mainPc' = "done"
             /\ currentIds' = cur
             /\ Calls(<<IdlingList(cur)>>)
             /\ intervalHandle' = TRUE
             /\ connectivityMonitor' = TRUE

StartDiscoveryFrom(outcomes) ==
  /\ mainPc = "discover"
  /\ \E oc \in outcomes :
       /\ startDisc' = oc.d
       /\ pendingPostCookieDiscovery' = oc.pending
       /\ broadMode' = oc.broad
       /\ IF oc.done THEN StartContinue(oc.result)
          ELSE Played(<<>>) /\ UNCHANGED <<mainPc, currentIds, loopVars>>
  /\ UNCHANGED <<running, optVars, connVars, everRemaining, webCookies, restartTimers,
                 webDisc, refr, ticks>>

StartDiscovery == StartDiscoveryFrom(discoverGames(startDisc)) /\ UNCHANGED scanVars

(* the client emits webSession: the handler of logOnWithRefresh, then the   *)
(* once handler of waitForCookies                                           *)
WebSession ==
  /\ mainPc \notin {"new", "fatal"}
  /\ steamID
  /\ LET deferred == pendingPostCookieDiscovery /\ running /\ currentIds = <<>>
     IN /\ deferred => webDisc.pc = "off"
        /\ webDisc' = IF deferred THEN DiscStart ELSE webDisc
  /\ webCookies' = TRUE
  /\ pendingPostCookieDiscovery' = FALSE
  /\ IF mainPc = "waitCookies"
     THEN mainPc' = "discover" /\ startDisc' = DiscStart
     ELSE UNCHANGED <<mainPc, startDisc>>
  /\ Played(<<>>)
  /\ UNCHANGED <<running, optVars, loopVars, broadMode, connVars, currentIds,
                 everRemaining, restartTimers, refr, ticks>>
  /\ UNCHANGED scanVars

(* the .then of the webSession handler's discoverGames *)
WebContinue(list) ==
  LET needed == EffTarget - Len(currentIds)
      add == chooseNextGames(list, needed, currentIds)
      cur == AddAll(currentIds, add)
  IN /\ currentIds' = cur
     /\ Played(IF add # <<>> THEN <<IdlingList(cur)>> ELSE <<>>)

WebDiscoveryFrom(outcomes) ==
  /\ \E oc \in outcomes :
       /\ webDisc' = oc.d
       /\ pendingPostCookieDiscovery' = oc.pending
       /\ broadMode' = oc.broad
       /\ IF oc.done THEN WebContinue(oc.result)
          ELSE Played(<<>>) /\ UNCHANGED currentIds
  /\ UNCHANGED <<mainVars, optVars, loopVars, connVars, everRemaining, webCookies,
                 restartTimers, refr, ticks>>

WebDiscovery == WebDiscoveryFrom(discoverGames(webDisc)) /\ UNCHANGED scanVars

(* a stop() that leaves the refresh interval armed *)
stopKeepsInterval ==
  /\ mainPc \in {"waitCookies", "discover", "empty", "done"}
  /\ running' = FALSE
  /\ currentIds' = <<>>
  /\ Played(<< <<>> >>)
  /\ UNCHANGED <<mainPc, startDisc, optVars, loopVars, flagVars, connVars,
                 everRemaining, webCookies, restartTimers, webDisc, refr, ticks>>
  /\ UNCHANGED scanVars

stop ==
  /\ mainPc \in {"waitCookies", "discover", "empty", "done"}
  /\ running' = FALSE
  /\ intervalHandle' = FALSE
  /\ currentIds' = <<>>
  /\ Played(<< <<>> >>)
  /\ UNCHANGED <<mainPc, startDisc, optVars, connectivityMonitor, flagVars, connVars,
                 everRemaining, webCookies, restartTimers, webDisc, refr, ticks>>
  /\ UNCHANGED scanVars

(* ------------------------- refreshBadgeStatus ------------------------- *)
InFlight == BagToSet(refr)

(* the invocation rec moves on to pc, or returns (pc = "off") *)
Moved(rec, pc, fetched, d) ==
  (refr (-) SetToBag({rec}))
  (+) (IF pc = "off" THEN EmptyBag
       ELSE SetToBag({[pc |-> pc, fetched |-> fetched, d |-> d,
                       removed |-> IF pc = "topup" THEN rec.removed ELSE {}]}))

(* the invocation rec, having removed the ids of gone, awaits the *)
(* discoverGames of its top-up                                    *)
TopUpStarted(rec, fetched, gone) ==
  (refr (-) SetToBag({rec}))
  (+) SetToBag({[pc |-> "topup", fetched |-> fetched, d |-> DiscStart, removed |-> gone]})

(* the setInterval callback of startLoop: refreshBadgeStatus up to its first await *)
TimerTick ==
  /\ intervalHandle
  /\ BagCardinality(refr) < MaxRefresh
  /\ ticks < MaxTicks
  /\ ticks' = ticks + 1
  /\ refr' = IF steamId64 THEN refr (+) SetToBag({RefrStart}) ELSE refr
  /\ Played(<<>>)
  /\ UNCHANGED <<mainVars, optVars, loopVars, flagVars, connVars, currentIds,
                 everRemaining, webCookies, restartTimers, webDisc>>
  /\ UNCHANGED scanVars

(* the same callback once the ticks counted by TimerTick are used up: the *)
(* interval keeps firing for as long as it is armed                      *)
TimerTickAgain ==
  /\ intervalHandle
  /\ BagCardinality(refr) < MaxRefresh
  /\ ticks = MaxTicks
  /\ refr' = IF steamId64 THEN refr (+) SetToBag({RefrStart}) ELSE refr
  /\ Played(<<>>)
  /\ UNCHANGED <<mainVars, optVars, loopVars, flagVars, connVars, currentIds,
                 everRemaining, webCookies, restartTimers, webDisc, ticks>>
  /\ UNCHANGED scanVars

(* scheduleCommunityHoursRestarts from its restartIds loop on *)
RestartPart(hot, cur, lists) ==
  LET restartIds == hot \cap Range(cur)
      fullList == IdlingList(cur)
      without == SelectSeq2(fullList, Range(fullList) \ restartIds)
  IN IF restartIds = {}
     THEN [pc |-> "off", lists |-> lists, timers |-> restartTimers]
     ELSE [pc |-> "off", lists |-> Append(lists, without),
           timers |-> Append(restartTimers, fullList)]

(* refreshBadgeStatus from applyIdling on: the ways it can end or await again. *)
(* The community badges it fetched at its start are read here for the first   *)
(* time, so their content is drawn here.                                      *)
RefreshTail(cur, fetched) ==
  LET lists == <<IdlingList(cur)>>
      again == [pc |-> "restartFetch", lists |-> lists, timers |-> restartTimers]
  IN IF ~webCookies THEN {[pc |-> "off", lists |-> lists, timers |-> restartTimers]}
     ELSE IF ~fetched THEN {again}
     ELSE {IF cs[1] THEN RestartPart(cs[2], cur, lists) ELSE again : cs \in CommunitySummaries}

(* the removal loop without its everRemaining test *)
RemovedWhenAbsent(cur, ever, remSet) == {id \in Range(cur) : id \notin remSet}

Removed(cur, ever, remSet) == {id \in Range(cur) : id \in ever /\ id \notin remSet}

(* the removal loop followed by a top-up test that reads the size the loop *)
(* started from                                                           *)
RemovalStepSizeBefore(rec, remSet, fetched) ==
  LET ever == everRemaining \cup remSet
      cur == SelectSeq2(currentIds, Range(currentIds) \ Removed(currentIds, ever, remSet))
  IN /\ everRemaining' = ever
     /\ currentIds' = cur
     /\ \E zero \in ZeroSets(remSet) :
          removal' = {[remainingSet |-> remSet, zeroSet |-> zero, before |-> currentIds]}
     /\ candidates' = {}
     /\ reconnected' = FALSE
     /\ caught' = FALSE
     /\ ranking' = {}
     /\ IF Len(currentIds) < EffTarget
        THEN /\ refr' = TopUpStarted(rec, fetched, Removed(currentIds, ever, remSet))
             /\ Calls(<<>>)
             /\ UNCHANGED restartTimers
        ELSE \E t \in RefreshTail(cur, fetched) :
               /\ Len(t.timers) <= MaxRestarts
               /\ refr' = Moved(rec, t.pc, fetched, DiscOff)
               /\ Calls(t.lists)
               /\ restartTimers' = t.timers

(* refreshBadgeStatus from the remainingSet loop up to its next await *)
RemovalStep(rec, remSet, fetched) ==
  LET ever == everRemaining \cup remSet
      cur == SelectSeq2(currentIds, Range(currentIds) \ Removed(currentIds, ever, remSet))
  IN /\ everRemaining' = ever
     /\ currentIds' = cur
     /\ \E zero \in ZeroSets(remSet) :
          removal' = {[remainingSet |-> remSet, zeroSet |-> zero, before |-> currentIds]}
     /\ candidates' = {}
     /\ reconnected' = FALSE
     /\ caught' = FALSE
     /\ ranking' = {}
     /\ IF Len(cur) < EffTarget
        THEN /\ refr' = TopUpStarted(rec, fetched, Removed(currentIds, ever, remSet))
             /\ Calls(<<>>)
             /\ UNCHANGED restartTimers
        ELSE \E t \in RefreshTail(cur, fetched) :
               /\ Len(t.timers) <= MaxRestarts
               /\ refr' = Moved(rec, t.pc, fetched, DiscOff)
               /\ Calls(t.lists)
               /\ restartTimers' = t.timers

(* a catch block that treats the failure as the end of idling *)
RefreshCatchGivesUp(rec) ==
  /\ refr' = Moved(rec, "off", FALSE, DiscOff)
  /\ Calls(<< <<>> >>)
  /\ removal' = {}
  /\ candidates' = {}
  /\ reconnected' = FALSE
  /\ caught' = TRUE
  /\ ranking' = {}
  /\ currentIds' = <<>>
  /\ UNCHANGED <<everRemaining, restartTimers>>

(* fetchBadges has thrown: the catch block of refreshBadgeStatus logs, and *)
(* the invocation returns                                                  *)
RefreshCatch(rec) ==
  /\ refr' = Moved(rec, "off", FALSE, DiscOff)
  /\ Calls(<<>>)
  /\ removal' = {}
  /\ candidates' = {}
  /\ reconnected' = FALSE
  /\ caught' = TRUE
  /\ ranking' = {}
  /\ UNCHANGED <<currentIds, everRemaining, restartTimers>>

(* fetchBadges has resolved or thrown; with the cookies there,              *)
(* fetchCommunityBadges has resolved too (nothing is read or written        *)
(* between the two)                                                         *)
RefreshFetch ==
  /\ \E rec \in InFlight :
       /\ rec.pc = "fetch"
       /\ \/ RefreshCatch(rec)
          \/ \E remSet \in RemainingSets : RemovalStep(rec, remSet, webCookies)
  /\ UNCHANGED <<mainVars, optVars, loopVars, flagVars, connVars, webCookies, webDisc, ticks>>
  /\ UNCHANGED scanVars

(* the top-up: discoverGames, then chooseNextGames and the rest of the cycle *)
TopUpContinue(rec, list) ==
  LET needed == EffTarget - Len(currentIds)
      chosen == chooseNextGames(list, needed, currentIds)
      cur == AddAll(currentIds, chosen)
  IN /\ currentIds' = cur
     /\ \E t \in RefreshTail(cur, rec.fetched) :
          /\ Len(t.timers) <= MaxRestarts
          /\ refr' = Moved(rec, t.pc, rec.fetched, DiscOff)
          /\ Played(t.lists)
          /\ restartTimers' = t.timers

RefreshTopUp ==
  /\ \E rec \in InFlight :
       /\ rec.pc = "topup"
       /\ \E oc \in discoverGames(rec.d) :
            /\ pendingPostCookieDiscovery' = oc.pending
            /\ broadMode' = oc.broad
            /\ IF oc.done THEN TopUpContinue(rec, oc.result)
               ELSE /\ refr' = Moved(rec, "topup", rec.fetched, oc.d)
                    /\ Played(<<>>)
                    /\ UNCHANGED <<currentIds, restartTimers>>
  /\ UNCHANGED <<mainVars, optVars, loopVars, connVars, everRemaining, webCookies,
                 webDisc, ticks>>
  /\ UNCHANGED scanVars

(* scheduleCommunityHoursRestarts after its own fetchCommunityBadges *)
RefreshRestartFetch ==
  /\ \E rec \in InFlight :
       /\ rec.pc = "restartFetch"
       /\ \E cs \in CommunitySummaries :
            LET t == IF cs[1] THEN RestartPart(cs[2], currentIds, <<>>)
                     ELSE [pc |-> "off", lists |-> <<>>, timers |-> restartTimers]
            IN /\ Len(t.timers) <= MaxRestarts
               /\ refr' = Moved(rec, "off", FALSE, DiscOff)
               /\ Played(t.lists)
               /\ restartTimers' = t.timers
  /\ UNCHANGED <<mainVars, optVars, loopVars, flagVars, connVars, currentIds,
                 everRemaining, webCookies, webDisc, ticks>>
  /\ UNCHANGED scanVars

(* the 3 s timer of the restart heuristic *)
RestartTimerFires ==
  /\ restartTimers # <<>>
  /\ Played(<<Head(restartTimers)>>)
  /\ restartTimers' = Tail(restartTimers)
  /\ UNCHANGED <<mainVars, optVars, loopVars, flagVars, connVars, currentIds,
                 everRemaining, webCookies, webDisc, refr, ticks>>
  /\ UNCHANGED scanVars

(* ------------------------ connection supervision ---------------------- *)
(* the loggedOn listeners declaring the list the set held at the drop *)
ReconnectedFromSnapshot ==
  /\ mainPc \notin {"new", "logOn", "fatal"}
  /\ ~steamID
  /\ autoRelogin \/ manualInFlight > 0
  /\ steamID' = TRUE
  /\ autoRelogin' = FALSE
  /\ manualInFlight' = 0
  /\ manualListeners' = 0
  /\ connecting' = IF manualListeners > 0 THEN FALSE ELSE connecting
  /\ idsAtDrop' = <<>>
  /\ Calls(Repeat(manualListeners, IdlingList(idsAtDrop)))
  /\ removal' = {}
  /\ candidates' = {}
  /\ reconnected' = TRUE
  /\ caught' = FALSE
  /\ ranking' = {}
  /\ UNCHANGED <<mainVars, optVars, loopVars, flagVars, fallbackTimers, drops, currentIds,
                 everRemaining, webCookies, restartTimers, webDisc, refr, ticks>>
  /\ UNCHANGED scanVars

(* the client emits loggedOn after a drop: every once('loggedOn') listener  *)
(* that manualReconnect registered runs, each calling applyIdling           *)
Reconnected ==
  /\ mainPc \notin {"new", "logOn", "fatal"}
  /\ ~steamID
  /\ autoRelogin \/ manualInFlight > 0
  /\ steamID' = TRUE
  /\ autoRelogin' = FALSE
  /\ manualInFlight' = 0
  /\ manualListeners' = 0
  /\ connecting' = IF manualListeners > 0 THEN FALSE ELSE connecting
  /\ idsAtDrop' = <<>>
  /\ Calls(Repeat(manualListeners, IdlingList(currentIds)))
  /\ removal' = {}
  /\ candidates' = {}
  /\ reconnected' = TRUE
  /\ caught' = FALSE
  /\ ranking' = {}
  /\ UNCHANGED <<mainVars, optVars, loopVars, flagVars, fallbackTimers, drops, currentIds,
                 everRemaining, webCookies, restartTimers, webDisc, refr, ticks>>
  /\ UNCHANGED scanVars

(* the client emits disconnected; startLoop's handler, once registered, arms *)
(* the 15 s fallback timer                                                  *)
Disconnected ==
  /\ mainPc \notin {"new", "logOn", "fatal"}
  /\ steamID
  /\ drops < MaxDrops
  /\ drops' = drops + 1
  /\ connectivityMonitor => fallbackTimers < MaxTimers
  /\ steamID' = FALSE
  /\ autoRelogin' = TRUE
  /\ idsAtDrop' = currentIds
  /\ IF connectivityMonitor
     THEN connecting' = FALSE /\ fallbackTimers' = fallbackTimers + 1
     ELSE UNCHANGED <<connecting, fallbackTimers>>
  /\ Played(<<>>)
  /\ UNCHANGED <<mainVars, optVars, loopVars, flagVars, manualInFlight, manualListeners,
                 currentIds, everRemaining, webCookies, restartTimers, webDisc, refr, ticks>>
  /\ UNCHANGED scanVars

(* the client emits error while logged on (a fatal session error, no relogin) *)
ClientError ==
  /\ connectivityMonitor
  /\ steamID
  /\ drops < MaxDrops
  /\ drops' = drops + 1
  /\ steamID' = FALSE
  /\ autoRelogin' = FALSE
  /\ connecting' = FALSE
  /\ idsAtDrop' = currentIds
  /\ Played(<<>>)
  /\ UNCHANGED <<mainVars, optVars, loopVars, flagVars, manualInFlight, manualListeners,
                 fallbackTimers, currentIds, everRemaining, webCookies, restartTimers,
                 webDisc, refr, ticks>>
  /\ UNCHANGED scanVars

(* a logOn issued by manualReconnect fails: the client emits error *)
ManualLogOnFails ==
  /\ ~steamID
  /\ manualInFlight > 0
  /\ manualInFlight' = manualInFlight - 1
  /\ connecting' = FALSE
  /\ Played(<<>>)
  /\ UNCHANGED <<mainVars, optVars, loopVars, flagVars, steamID, autoRelogin,
                 manualListeners, fallbackTimers, idsAtDrop, drops, currentIds,
                 everRemaining, webCookies, restartTimers, webDisc, refr, ticks>>
  /\ UNCHANGED scanVars

(* manualReconnect(): the values of connecting, manualInFlight and          *)
(* manualListeners it can leave.  client._loggingOn is a private field of   *)
(* the client, and client.logOn may accept the call or throw.               *)
manualReconnect ==
  LET same == <<connecting, manualInFlight, manualListeners>>
      busy == manualInFlight > 0 \/ autoRelogin
  IN IF ~refreshToken \/ connecting THEN {same}
     ELSE (IF busy THEN {same, <<TRUE, manualInFlight, manualListeners>>} ELSE {})
          \cup {<<FALSE, manualInFlight, manualListeners>>}
          \cup (IF manualInFlight < MaxInFlight /\ manualListeners < MaxListeners
                THEN {<<connecting, manualInFlight + 1, manualListeners + 1>>} ELSE {})

(* the 10 s setInterval callback of startLoop *)
ConnectivityTick ==
  /\ connectivityMonitor
  /\ \E m \in (IF ~steamID /\ ~connecting THEN manualReconnect
               ELSE {<<connecting, manualInFlight, manualListeners>>}) :
       /\ connecting' = m[1]
       /\ manualInFlight' = m[2]
       /\ manualListeners' = m[3]
  /\ Played(<<>>)
  /\ UNCHANGED <<mainVars, optVars, loopVars, flagVars, steamID, autoRelogin,
                 fallbackTimers, idsAtDrop, drops, currentIds,
                 everRemaining, webCookies, restartTimers, webDisc, refr, ticks>>
  /\ UNCHANGED scanVars

(* the 15 s setTimeout callback of the disconnected handler *)
FallbackTimerFires ==
  /\ fallbackTimers > 0
  /\ fallbackTimers' = fallbackTimers - 1
  /\ \E m \in (IF ~steamID /\ ~connecting THEN manualReconnect
               ELSE {<<connecting, manualInFlight, manualListeners>>}) :
       /\ connecting' = m[1]
       /\ manualInFlight' = m[2]
       /\ manualListeners' = m[3]
  /\ Played(<<>>)
  /\ UNCHANGED <<mainVars, optVars, loopVars, flagVars, steamID, autoRelogin,
                 idsAtDrop, drops, currentIds,
                 everRemaining, webCookies, restartTimers, webDisc, refr, ticks>>
  /\ UNCHANGED scanVars

(* ------------------------- scanAllCardCapable ------------------------- *)
(* The scan of the owned library in detail: fetchOwned, the probes of the  *)
(* store, the capability cache they share and the file it is saved to.     *)
concurrency == 6
overallCap == 2400

(* Map.set on the capability cache *)
CacheSet(cache, appid, hasCards) ==
  [x \in DOMAIN cache \cup {appid} |-> IF x = appid THEN hasCards ELSE cache[x]]

(* the discoverGames invocation that awaits the scan of owner k *)
Disc(k) == IF k = "start" THEN startDisc ELSE webDisc

(* limitNeeded: what discoverGames passes as stillNeed *)
LimitNeeded(k) == targetParallel - Len(Disc(k).direct)

(* runBatch from sc.idx on: the probes of one batch up to their fetch; a   *)
(* probe of a cached id returns at once, and when every probe of the batch *)
(* did, the test after Promise.all and the next batch follow. The chain of *)
(* calls ends with the first batch that has a probe to wait for, or after  *)
(* which the test fails; from is where that batch starts                   *)
runBatch(sc, cache, limitNeeded) ==
  LET n == Len(sc.ordered)
      cap == IF n < overallCap THEN n ELSE overallCap
      End(i) == IF i + concurrency < cap THEN i + concurrency ELSE cap
      IsHit(appid) == appid \in DOMAIN cache /\ cache[appid]
      Cached(i) == \A p \in (i + 1)..End(i) : sc.ordered[p] \in DOMAIN cache
      HitsTo(e) == Cardinality({p \in (sc.idx + 1)..e : IsHit(sc.ordered[p])})
      GoesOn(i) == /\ Cached(i)
                   /\ Len(sc.found) + HitsTo(End(i)) < limitNeeded
                   /\ End(i) < n /\ End(i) < overallCap
      starts == {i \in sc.idx..(cap - 1) : (i - sc.idx) % concurrency = 0}
      from == CHOOSE i \in starts :
                ~GoesOn(i) /\ \A earlier \in starts : earlier < i => GoesOn(earlier)
      batch == SubSeq(sc.ordered, from + 1, End(from))
      started == [sc EXCEPT !.idx = End(from),
                            !.found = sc.found \o SelectSeq(SubSeq(sc.ordered, sc.idx + 1, End(from)),
                                                            IsHit),
                            !.inflight = Range(batch) \ DOMAIN cache,
                            !.probed = sc.probed \cup (Range(batch) \ DOMAIN cache)]
  IN IF starts = {} THEN [sc EXCEPT !.pc = "persist"]
     ELSE IF started.inflight # {} THEN [started EXCEPT !.pc = "probing"]
     ELSE [started EXCEPT !.pc = "persist"]

(* the scan of owner k goes on as sc; when runBatch has returned, the cache *)
(* is written to the file and the scan resolves with found                  *)
ScanGoesOn(k, sc, cache) ==
  IF sc.pc = "persist"
  THEN /\ cacheFile' = {cache}
       /\ scans' = [scans EXCEPT ![k] = [sc EXCEPT !.pc = "done"]]
  ELSE /\ cacheFile' = cacheFile
       /\ scans' = [scans EXCEPT ![k] = sc]

(* what fetchOwned can resolve with, in the order the scan gives the games; *)
(* a fetchOwned that throws ends the scan like one that resolves with none  *)
OwnedLists == IF steamId64 THEN InjectiveSeqs(Ids) ELSE {<<>>}

(* fetchOwned of scan k has resolved with one of lists: the cache is loaded *)
(* from its file if it is empty and the file is there, and the first batch  *)
(* starts                                                                   *)
ScanOwnedFrom(k, lists) ==
  /\ Disc(k).pc = "scan"
  /\ scans[k].pc = "idle"
  /\ \E owned \in lists :
       LET loaded == IF DOMAIN storeCategoryCache = {} /\ cacheFile # {}
                     THEN CHOOSE f \in cacheFile : TRUE
                     ELSE storeCategoryCache
       IN IF owned = <<>>
          THEN /\ scans' = [scans EXCEPT ![k] = [ScanIdle EXCEPT !.pc = "done"]]
               /\ UNCHANGED <<storeCategoryCache, cacheFile>>
          ELSE /\ storeCategoryCache' = loaded
               /\ ScanGoesOn(k, runBatch([ScanIdle EXCEPT !.ordered = owned], loaded,
                                         LimitNeeded(k)), loaded)
  /\ Played(<<>>)
  /\ UNCHANGED <<mainVars, optVars, loopVars, flagVars, connVars, currentIds,
                 everRemaining, webCookies, restartTimers, webDisc, refr, ticks>>

ScanOwned(k) == ScanOwnedFrom(k, OwnedLists)

(* a runBatch whose test after Promise.all does not look at found *)
ProbeDoneWhateverFound(k) ==
  /\ scans[k].pc = "probing"
  /\ \E appid \in scans[k].inflight, hasCards \in BOOLEAN :
       LET cache == CacheSet(storeCategoryCache, appid, hasCards)
           sc == [scans[k] EXCEPT !.inflight = @ \ {appid},
                                  !.found = IF hasCards THEN Append(@, appid) ELSE @]
           n == Len(sc.ordered)
       IN /\ storeCategoryCache' = cache
          /\ ScanGoesOn(k, IF sc.inflight # {} THEN sc
                           ELSE IF sc.idx < n /\ sc.idx < overallCap
                           THEN runBatch(sc, cache, LimitNeeded(k))
                           ELSE [sc EXCEPT !.pc = "persist"],
                        cache)
  /\ Played(<<>>)
  /\ UNCHANGED <<mainVars, optVars, loopVars, flagVars, connVars, currentIds,
                 everRemaining, webCookies, restartTimers, webDisc, refr, ticks>>

(* a probe of scan k has its answer: the store lists the trading cards     *)
(* category for the id (hasCards), or it does not, or the request failed   *)
ProbeDone(k) ==
  /\ scans[k].pc = "probing"
  /\ \E appid \in scans[k].inflight, hasCards \in BOOLEAN :
       LET cache == CacheSet(storeCategoryCache, appid, hasCards)
           sc == [scans[k] EXCEPT !.inflight = @ \ {appid},
                                  !.found = IF hasCards THEN Append(@, appid) ELSE @]
           n == Len(sc.ordered)
       IN /\ storeCategoryCache' = cache
          /\ ScanGoesOn(k, IF sc.inflight # {} THEN sc
                           ELSE IF Len(sc.found) < LimitNeeded(k) /\ sc.idx < n
                                   /\ sc.idx < overallCap
                           THEN runBatch(sc, cache, LimitNeeded(k))
                           ELSE [sc EXCEPT !.pc = "persist"],
                        cache)
  /\ Played(<<>>)
  /\ UNCHANGED <<mainVars, optVars, loopVars, flagVars, connVars, currentIds,
                 everRemaining, webCookies, restartTimers, webDisc, refr, ticks>>

(* start's discoverGames goes on with what its own scan resolved with *)
StartDiscoveryScanned ==
  /\ startDisc.pc = "scan" => scans["start"].pc = "done"
  /\ StartDiscoveryFrom(discoverGamesFrom(startDisc, {scans["start"].found}))
  /\ scans' = [scans EXCEPT !["start"] = ScanIdle]
  /\ UNCHANGED <<storeCategoryCache, cacheFile>>

(* the webSession handler's discoverGames goes on with what its own scan *)
(* resolved with                                                         *)
WebDiscoveryScanned ==
  /\ webDisc.pc = "scan" => scans["web"].pc = "done"
  /\ WebDiscoveryFrom(discoverGamesFrom(webDisc, {scans["web"].found}))
  /\ scans' = [scans EXCEPT !["web"] = ScanIdle]
  /\ UNCHANGED <<storeCategoryCache, cacheFile>>

(* ---------------------------- specification --------------------------- *)
(* the manager on a connection that stays up: start, the deferred          *)
(* discovery, the periodic refresh, the restart heuristic and stop         *)
Next ==
  \/ LogOnWithRefresh
  \/ InitialLogOnFails
  \/ InitialLoggedOn
  \/ Start
  \/ WaitForCookiesTimeout
  \/ StartDiscovery
  \/ WebSession
  \/ WebDiscovery
  \/ stop
  \/ TimerTick
  \/ RefreshFetch
  \/ RefreshTopUp
  \/ RefreshRestartFetch
  \/ RestartTimerFires

Spec == Init /\ [][Next]_vars

(* the manager on a connection that drops: start, the deferred discovery,  *)
(* stop and the connection supervision of startLoop                        *)
NextConn ==
  \/ LogOnWithRefresh
  \/ InitialLogOnFails
  \/ InitialLoggedOn
  \/ Start
  \/ WaitForCookiesTimeout
  \/ StartDiscovery
  \/ WebSession
  \/ WebDiscovery
  \/ stop
  \/ Disconnected
  \/ ClientError
  \/ Reconnected
  \/ ManualLogOnFails
  \/ ConnectivityTick
  \/ FallbackTimerFires

SpecConn == Init /\ [][NextConn]_vars

(* the manager without web cookies, on a connection that stays up, with    *)
(* an interval that never stops firing; every timer that is armed fires    *)
(* and every fetch that is awaited ends                                    *)
NextLive ==
  \/ LogOnWithRefresh
  \/ InitialLoggedOn
  \/ Start
  \/ WaitForCookiesTimeout
  \/ StartDiscovery
  \/ TimerTick
  \/ TimerTickAgain
  \/ RefreshFetch
  \/ RefreshTopUp

SpecLive ==
  /\ Init
  /\ [][NextLive]_vars
  /\ WF_vars(LogOnWithRefresh)
  /\ WF_vars(InitialLoggedOn)
  /\ WF_vars(Start)
  /\ WF_vars(WaitForCookiesTimeout)
  /\ WF_vars(StartDiscovery)
  /\ WF_vars(TimerTick)
  /\ WF_vars(TimerTickAgain)
  /\ WF_vars(RefreshFetch)
  /\ WF_vars(RefreshTopUp)

(* the same, with the two timers of the connection supervision firing for *)
(* as long as they are armed                                               *)
SpecConnLive ==
  /\ Init
  /\ [][NextConn]_vars
  /\ WF_vars(ConnectivityTick)
  /\ WF_vars(FallbackTimerFires)

(* start and the deferred discovery with their library scans in detail, on *)
(* a connection that stays up                                               *)
NextScan ==
  \/ LogOnWithRefresh
  \/ InitialLoggedOn
  \/ Start
  \/ WaitForCookiesTimeout
  \/ WebSession
  \/ StartDiscoveryScanned
  \/ WebDiscoveryScanned
  \/ \E k \in ScanOwners : ScanOwned(k)
  \/ \E k \in ScanOwners : ProbeDone(k)

SpecScan == Init /\ [][NextScan]_vars

(* The library scan over more than one batch: start's discoverGames has    *)
(* found no badge with drops left after the cookie wait timed out, has     *)
(* enabled broad mode and stands at its scan; the owned catalog has up to  *)
(* MaxOwned games                                                          *)
Iota(n) == [i \in 1..n |-> i]

LongCatalogs == {Iota(n) : n \in 0..MaxOwned}

InitScanWith(web, cookies, pending, files) ==
  /\ mainPc = "discover"
  /\ running = TRUE
  /\ currentIds = <<>>
  /\ everRemaining = {}
  /\ targetParallel \in 1..MaxTarget
  /\ intervalHandle = FALSE
  /\ connectivityMonitor = FALSE
  /\ connecting = FALSE
  /\ refreshToken = TRUE
  /\ steamId64 = TRUE
  /\ webCookies = cookies
  /\ pendingPostCookieDiscovery = pending
  /\ broadMode = TRUE
  /\ steamID = TRUE
  /\ autoRelogin = FALSE
  /\ manualInFlight = 0
  /\ manualListeners = 0
  /\ fallbackTimers = 0
  /\ restartTimers = <<>>
  /\ startDisc = [pc |-> "scan", direct |-> <<>>]
  /\ webDisc = web
  /\ refr = EmptyBag
  /\ out = <<>>
  /\ gamesPlayedCalls = 0
  /\ candidates = {}
  /\ removal = {}
  /\ reconnected = FALSE
  /\ caught = FALSE
  /\ ranking = {}
  /\ idsAtDrop = <<>>
  /\ ticks = 0
  /\ drops = 0
  /\ storeCategoryCache = <<>>
  /\ cacheFile \in files
  /\ scans = [k \in ScanOwners |-> ScanIdle]

InitScanAt(web, cookies, pending) == InitScanWith(web, cookies, pending, {{}})

InitScanBatches == InitScanAt(DiscOff, FALSE, TRUE)

NextScanBatches ==
  \/ ScanOwnedFrom("start", LongCatalogs)
  \/ ProbeDone("start")
  \/ StartDiscoveryScanned

SpecScanBatches == InitScanBatches /\ [][NextScanBatches]_vars

(* Two library scans side by side: the web session has arrived while       *)
(* start's discoverGames stood at its scan, and the webSession handler's   *)
(* deferred discoverGames has reached its own scan; both get the same      *)
(* owned catalog of MaxShared games                                        *)
SharedCatalogs == {Iota(MaxShared)}

InitScanOverlap == InitScanAt([pc |-> "scan", direct |-> <<>>], TRUE, FALSE)

NextScanOverlap ==
  \/ \E k \in ScanOwners : ScanOwnedFrom(k, SharedCatalogs)
  \/ \E k \in ScanOwners : ProbeDone(k)
  \/ StartDiscoveryScanned
  \/ WebDiscoveryScanned

SpecScanOverlap == InitScanOverlap /\ [][NextScanOverlap]_vars

(* The library scan up to its budget: the cache file is either absent or   *)
(* left by earlier runs that found no trading cards in the first           *)
(* overallCap - MaxUncached games of the catalog, and the catalog is then  *)
(* around overallCap games long; each probe returns                        *)
PriorCache == [appid \in 1..(overallCap - MaxUncached) |-> FALSE]

CappedCatalogs == {Iota(n) : n \in (overallCap - 1)..(overallCap + MaxBeyondCap)}

InitScanBudget == InitScanWith(DiscOff, FALSE, TRUE, {{}, {PriorCache}})

NextScanBudget ==
  \/ ScanOwnedFrom("start", IF cacheFile = {} THEN LongCatalogs ELSE CappedCatalogs)
  \/ ProbeDone("start")
  \/ StartDiscoveryScanned

SpecScanBudget ==
  InitScanBudget /\ [][NextScanBudget]_vars /\ WF_vars(ProbeDone("start"))

(* The lists the manager declares when the Active Set is large: a manager  *)
(* with a targetParallel around the display limit, logged on with its web  *)
(* cookies, whose start() awaits discoverGames; the discovery resolves with *)
(* up to MaxSet candidates, then restart cycles and stop follow.            *)
LargeTargets == (DisplayLimit - 1)..MaxSet
LargeLists == {[k \in 1..n |-> k] : n \in 0..MaxSet}

InitIdling ==
  /\ mainPc = "discover"
  /\ running = TRUE
  /\ currentIds = <<>>
  /\ everRemaining = {}
  /\ targetParallel \in LargeTargets
  /\ intervalHandle = FALSE
  /\ connectivityMonitor = FALSE
  /\ connecting = FALSE
  /\ refreshToken = TRUE
  /\ steamId64 = TRUE
  /\ webCookies = TRUE
  /\ pendingPostCookieDiscovery = FALSE
  /\ broadMode = FALSE
  /\ steamID = TRUE
  /\ autoRelogin = FALSE
  /\ manualInFlight = 0
  /\ manualListeners = 0
  /\ fallbackTimers = 0
  /\ restartTimers = <<>>
  /\ startDisc = DiscStart
  /\ webDisc = DiscOff
  /\ refr = EmptyBag
  /\ out = <<>>
  /\ gamesPlayedCalls = 0
  /\ candidates = {}
  /\ removal = {}
  /\ reconnected = FALSE
  /\ caught = FALSE
  /\ ranking = {}
  /\ idsAtDrop = <<>>
  /\ ticks = 0
  /\ drops = 0
  /\ storeCategoryCache = <<>>
  /\ cacheFile = {}
  /\ scans = [k \in ScanOwners |-> ScanIdle]

(* start's discoverGames resolves with one of LargeLists *)
StartDiscoveryLarge ==
  /\ StartDiscoveryFrom({DiscOutcome(DiscOff, FALSE, FALSE, TRUE, list) : list \in LargeLists})
  /\ UNCHANGED scanVars

(* scheduleCommunityHoursRestarts with the community badges at hand: the *)
(* games of hot are over the threshold                                   *)
RestartLarge ==
  /\ mainPc = "done"
  /\ webCookies
  /\ \E hot \in {{}} \cup {{k} : k \in 1..MaxSet} \cup {1..MaxSet} :
       LET t == RestartPart(hot, currentIds, <<>>)
       IN /\ Len(t.timers) <= MaxRestarts
          /\ Played(t.lists)
          /\ restartTimers' = t.timers
  /\ UNCHANGED <<mainVars, optVars, loopVars, flagVars, connVars, currentIds,
                 everRemaining, webCookies, webDisc, refr, ticks>>
  /\ UNCHANGED scanVars

NextIdling ==
  \/ StartDiscoveryLarge
  \/ RestartLarge
  \/ RestartTimerFires
  \/ stop

SpecIdling == InitIdling /\ [][NextIdling]_vars

(* The ranking of discoverGames on its own: fetchBadges and, where it is   *)
(* asked, fetchCommunityBadges have resolved with records in any order;    *)
(* the merge, the filter, the sort and the broad-mode test follow. The     *)
(* discovery is the one of start(), before which broad mode is off, or the *)
(* deferred one of the webSession handler after a start() that found       *)
(* nothing, which runs with the cookies and with broad mode on.            *)
RankRems == {None} \cup (0..MaxRankRem)

RankApiFeeds ==
  {[k \in 1..Len(p) |-> Badge(p[k], f[p[k]], None)] :
     p \in InjectiveSeqs(Ids), f \in [Ids -> RankRems]}

RankCommunityFeeds ==
  {[k \in 1..Len(p) |-> Badge(p[k], f[p[k]][1], f[p[k]][2])] :
     p \in InjectiveSeqs(Ids), f \in [Ids -> RankRems \X ({None} \cup HoursValues)]}

(* a merge whose result is dropped *)
MergedBadgesDropped(badges, communityBadges, cookies) == badges

(* badges after the merge: the community badges are fetched and merged only *)
(* when no API badge shows a positive count and the cookies are there       *)
MergedBadges(badges, communityBadges, cookies) ==
  IF ApiRemainingCount(badges) = 0 /\ cookies
  THEN MergeCommunity(badges, communityBadges)
  ELSE badges

InitRank ==
  /\ \/ /\ mainPc = "discover"
        /\ startDisc = DiscStart
        /\ webDisc = DiscOff
        /\ webCookies \in BOOLEAN
        /\ broadMode = FALSE
     \/ /\ mainPc = "empty"
        /\ startDisc = DiscOff
        /\ webDisc = DiscStart
        /\ webCookies = TRUE
        /\ broadMode = TRUE
  /\ running = TRUE
  /\ currentIds = <<>>
  /\ everRemaining = {}
  /\ targetParallel \in 1..MaxTarget
  /\ intervalHandle = FALSE
  /\ connectivityMonitor = FALSE
  /\ connecting = FALSE
  /\ refreshToken = TRUE
  /\ steamId64 = TRUE
  /\ pendingPostCookieDiscovery = FALSE
  /\ steamID = TRUE
  /\ autoRelogin = FALSE
  /\ manualInFlight = 0
  /\ manualListeners = 0
  /\ fallbackTimers = 0
  /\ restartTimers = <<>>
  /\ refr = EmptyBag
  /\ out = <<>>
  /\ gamesPlayedCalls = 0
  /\ candidates = {}
  /\ removal = {}
  /\ reconnected = FALSE
  /\ caught = FALSE
  /\ ranking \in {{[pc |-> "fetched", badges |-> b, communityBadges |-> c,
                     merged |-> <<>>, direct |-> <<>>]} :
                    b \in RankApiFeeds, c \in RankCommunityFeeds}
  /\ idsAtDrop = <<>>
  /\ ticks = 0
  /\ drops = 0
  /\ storeCategoryCache = <<>>
  /\ cacheFile = {}
  /\ scans = [k \in ScanOwners |-> ScanIdle]

(* discoverGames from the answer of fetchBadges on: the merge, the filter, *)
(* the sort and the broad-mode test, up to the call of the scan or to the *)
(* return                                                                 *)
RankCandidates ==
  /\ \E r \in ranking, k \in ScanOwners :
       /\ r.pc = "fetched"
       /\ Disc(k).pc = "fetch"
       /\ LET merged == MergedBadges(r.badges, r.communityBadges, webCookies)
              direct == DirectHits(merged)
              pend == pendingPostCookieDiscovery
                      \/ (ApiRemainingCount(r.badges) = 0 /\ ~webCookies)
              oc == AfterMerge(direct, pend)
          IN /\ ranking' = {[r EXCEPT !.pc = "ranked", !.merged = merged,
                                      !.direct = direct]}
             /\ startDisc' = IF k = "start" THEN oc.d ELSE startDisc
             /\ webDisc' = IF k = "web" THEN oc.d ELSE webDisc
             /\ pendingPostCookieDiscovery' = oc.pending
             /\ broadMode' = oc.broad
  /\ UNCHANGED <<mainPc, running, optVars, loopVars, connVars, scanVars, currentIds,
                 everRemaining, webCookies, restartTimers, refr, ticks,
                 out, gamesPlayedCalls, candidates, removal, reconnected, caught>>

NextRank == RankCandidates

SpecRank == InitRank /\ [][NextRank]_vars

(* The parse of fetchCommunityBadges on its own: a badges page has come    *)
(* back for a discovery that has the cookies; between one gamecards anchor *)
(* and the next, the text of a badge block may hold the no-drops marker,   *)
(* an 'N card drops remaining' phrase, a 'Card drops earned' count, a      *)
(* 'Card drops received' count and an 'hrs on record' figure               *)
Counts == {None} \cup (0..MaxCount)

Blocks ==
  [appid : Ids, marker : BOOLEAN, phrase : Counts, earned : Counts, received : Counts,
   hours : {None} \cup HoursValues]

Pages == {<<>>} \cup {<<b>> : b \in Blocks}

(* remaining of one block *)
ParsedRemaining(block) ==
  IF block.marker THEN 0
  ELSE IF IsNumber(block.phrase) THEN block.phrase
  ELSE IF IsNumber(block.earned) /\ IsNumber(block.received)
          /\ block.earned >= block.received
  THEN (IF block.earned - block.received > 0 THEN block.earned - block.received ELSE 0)
  ELSE None

(* results after the blocks of one page *)
ParsedPage(page) ==
  [k \in 1..Len(page) |-> Badge(page[k].appid, ParsedRemaining(page[k]), page[k].hours)]

InitParse ==
  /\ mainPc = "discover"
  /\ startDisc = DiscStart
  /\ webDisc = DiscOff
  /\ webCookies = TRUE
  /\ broadMode = FALSE
  /\ running = TRUE
  /\ currentIds = <<>>
  /\ everRemaining = {}
  /\ targetParallel \in 1..MaxTarget
  /\ intervalHandle = FALSE
  /\ connectivityMonitor = FALSE
  /\ connecting = FALSE
  /\ refreshToken = TRUE
  /\ steamId64 = TRUE
  /\ pendingPostCookieDiscovery = FALSE
  /\ steamID = TRUE
  /\ autoRelogin = FALSE
  /\ manualInFlight = 0
  /\ manualListeners = 0
  /\ fallbackTimers = 0
  /\ restartTimers = <<>>
  /\ refr = EmptyBag
  /\ out = <<>>
  /\ gamesPlayedCalls = 0
  /\ candidates = {}
  /\ removal = {}
  /\ reconnected = FALSE
  /\ caught = FALSE
  /\ ranking \in {{[pc |-> "page", page |-> p, communityBadges |-> <<>>]} : p \in Pages}
  /\ idsAtDrop = <<>>
  /\ ticks = 0
  /\ drops = 0
  /\ storeCategoryCache = <<>>
  /\ cacheFile = {}
  /\ scans = [k \in ScanOwners |-> ScanIdle]

(* fetchCommunityBadges from the text of the page on: the blocks are *)
(* parsed and pushed onto results                                    *)
ParseCommunityPage ==
  /\ \E r \in ranking :
       /\ r.pc = "page"
       /\ ranking' = {[r EXCEPT !.pc = "parsed", !.communityBadges = ParsedPage(r.page)]}
  /\ UNCHANGED <<mainVars, optVars, loopVars, flagVars, connVars, scanVars, currentIds,
                 everRemaining, webCookies, restartTimers, webDisc, refr, ticks,
                 out, gamesPlayedCalls, candidates, removal, reconnected, caught>>

NextParse == ParseCommunityPage

SpecParse == InitParse /\ [][NextParse]_vars

(* The draft SteamIdlerManager of idler.ts: no web session, no community   *)
(* badges, no connection supervision; discoverGames fills up the badges    *)
(* with drops left from heuristicUnplayedCardGames, and refreshBadgeStatus *)
(* keeps no record of the ids that had drops left. everRemaining stands    *)
(* here for the ids that a fetchBadges of the draft has reported with      *)
(* drops left, which is what the comment of its removal loop refers to.    *)
(* The manager is logged on with an API key and start() awaits its         *)
(* discovery.                                                              *)
DraftHeuristics == InjectiveSeqs(Ids)

(* what the draft's discoverGames can resolve with: its list, and the ids *)
(* its fetchBadges reported with drops left                               *)
DraftDiscoveries ==
  {[list |-> <<>>, seen |-> {}]}
  \cup UNION {LET withRemaining == [k \in 1..Len(FilterRemaining(b)) |->
                                     FilterRemaining(b)[k].appid]
              IN {[list |-> Dedup(PushNew(withRemaining, heur)), seen |-> PositiveIds(b)] :
                    heur \in (IF Len(withRemaining) < targetParallel THEN DraftHeuristics
                              ELSE {<<>>})} : b \in ApiFeeds}

InitDraft ==
  /\ mainPc = "discover"
  /\ running = TRUE
  /\ currentIds = <<>>
  /\ everRemaining = {}
  /\ targetParallel \in 1..MaxTarget
  /\ intervalHandle = FALSE
  /\ connectivityMonitor = FALSE
  /\ connecting = FALSE
  /\ refreshToken = TRUE
  /\ steamId64 = TRUE
  /\ webCookies = FALSE
  /\ pendingPostCookieDiscovery = FALSE
  /\ broadMode = FALSE
  /\ steamID = TRUE
  /\ autoRelogin = FALSE
  /\ manualInFlight = 0
  /\ manualListeners = 0
  /\ fallbackTimers = 0
  /\ restartTimers = <<>>
  /\ startDisc = DiscOff
  /\ webDisc = DiscOff
  /\ refr = EmptyBag
  /\ out = <<>>
  /\ gamesPlayedCalls = 0
  /\ candidates = {}
  /\ removal = {}
  /\ reconnected = FALSE
  /\ caught = FALSE
  /\ ranking = {}
  /\ idsAtDrop = <<>>
  /\ ticks = 0
  /\ drops = 0
  /\ storeCategoryCache = <<>>
  /\ cacheFile = {}
  /\ scans = [k \in ScanOwners |-> ScanIdle]

draftFrame ==
  <<startDisc, optVars, connectivityMonitor, flagVars, connVars, scanVars, webCookies,
    restartTimers, webDisc>>

(* the draft's start() after its discoverGames *)
DraftStart ==
  /\ mainPc = "discover"
  /\ running
  /\ \E r \in DraftDiscoveries :
       /\ everRemaining' = everRemaining \cup r.seen
       /\ IF r.list = <<>>
          THEN /\ mainPc' = "empty"
               /\ Played(<<>>)
               /\ UNCHANGED <<currentIds, intervalHandle>>
          ELSE /\ mainPc' = "done"
               /\ currentIds' = AddAll(currentIds,
                                       chooseNextGames(r.list, EffTarget, currentIds))
               /\ Played(<<IdlingList(currentIds')>>)
               /\ intervalHandle' = TRUE
  /\ UNCHANGED <<running, refr, ticks, draftFrame>>

(* the setInterval callback of the draft's startLoop *)
DraftTimerTick ==
  /\ intervalHandle
  /\ BagCardinality(refr) < MaxRefresh
  /\ ticks < MaxTicks
  /\ ticks' = ticks + 1
  /\ refr' = refr (+) SetToBag({RefrStart})
  /\ Played(<<>>)
  /\ UNCHANGED <<mainPc, running, currentIds, everRemaining, intervalHandle, draftFrame>>

(* the draft's refreshBadgeStatus after its fetchBadges: the catch block, *)
(* or the removal loop up to the top-up's await or to applyIdling         *)
DraftRefreshFetch ==
  /\ \E rec \in BagToSet(refr) :
       /\ rec.pc = "fetch"
       /\ \/ /\ refr' = refr (-) SetToBag({rec})
             /\ Played(<<>>)
             /\ UNCHANGED <<currentIds, everRemaining>>
          \/ \E b \in ApiFeeds :
               LET remainingSet == PositiveIds(b)
                   cur == SelectSeq2(currentIds, remainingSet)
               IN /\ currentIds' = cur
                  /\ everRemaining' = everRemaining \cup remainingSet
                  /\ IF Len(cur) < EffTarget
                     THEN /\ refr' = (refr (-) SetToBag({rec}))
                                     (+) SetToBag({[rec EXCEPT !.pc = "topup"]})
                          /\ Played(<<>>)
                     ELSE /\ refr' = refr (-) SetToBag({rec})
                          /\ Played(<<IdlingList(cur)>>)
  /\ UNCHANGED <<mainPc, running, intervalHandle, ticks, draftFrame>>

(* the draft's refreshBadgeStatus after the discoverGames of its top-up *)
DraftTopUp ==
  /\ \E rec \in BagToSet(refr), r \in DraftDiscoveries :
       /\ rec.pc = "topup"
       /\ refr' = refr (-) SetToBag({rec})
       /\ everRemaining' = everRemaining \cup r.seen
       /\ currentIds' = AddAll(currentIds,
                               chooseNextGames(r.list, EffTarget - Len(currentIds), currentIds))
       /\ Played(<<IdlingList(currentIds')>>)
  /\ UNCHANGED <<mainPc, running, intervalHandle, ticks, draftFrame>>

(* the draft's stop() *)
DraftStop ==
  /\ running
  /\ running' = FALSE
  /\ intervalHandle' = FALSE
  /\ currentIds' = <<>>
  /\ Played(<< <<>> >>)
  /\ UNCHANGED <<mainPc, everRemaining, refr, ticks, draftFrame>>

NextDraft ==
  \/ DraftStart
  \/ DraftTimerTick
  \/ DraftRefreshFetch
  \/ DraftTopUp
  \/ DraftStop

SpecDraft == InitDraft /\ [][NextDraft]_vars

(* the rankings that are complete *)
Ranked == {r \in ranking : r.pc = "ranked"}

(* the discovery has called scanAllCardCapable with its direct hits *)
ScanCalled(direct) == \E k \in ScanOwners : Disc(k) = [pc |-> "scan", direct |-> direct]

(* ------------------------------ properties ---------------------------- *)
(* stop() has been called: running was set by start() and cleared again *)
StopCalled == ~running /\ mainPc \in {"waitCookies", "discover", "empty", "done"}

NonEmptyCall == \E k \in 1..Len(out) : out[k] # <<>>

(* the refreshBadgeStatus invocations awaiting their top-up discovery *)
TopUps(b) == BagCardinality([r \in {x \in BagToSet(b) : x.pc = "topup"} |-> b[r]])

(* C1: in every reachable state the Active Set (currentIds) holds at most *)
(* min(targetParallel, 32) ids.                                           *)
C1_SizeBound == Len(currentIds) <= targetParallel /\ Len(currentIds) <= DisplayLimit

(* C2: a refresh removes an id from the Active Set only if the id is in    *)
(* everRemaining and absent from the remainingSet of that cycle; an id     *)
(* never seen with a positive count is never removed by a refresh.         *)
C2_RemovalOnlyOfCompleted ==
  [][\A r \in removal' :
       \A id \in Range(currentIds) \ Range(currentIds') :
         id \in everRemaining /\ id \notin r.remainingSet]_vars

(* a refresh has just removed an id from the Active Set *)
C2_Witness == \E r \in removal : Range(r.before) \ Range(currentIds) # {}

(* C3: at most one refreshBadgeStatus invocation is in flight at any time. *)
C3_OneRefreshInFlight == BagCardinality(refr) <= 1

(* C4: once stop() has been called the Active Set stays empty and no       *)
(* gamesPlayed call with a non-empty list is issued again.                 *)
C4_StoppedIsTerminal == StopCalled => currentIds = <<>> /\ ~NonEmptyCall

(* C5: manual reconnect attempts are serialized: no logOn of               *)
(* manualReconnect is issued while an earlier one is still unanswered (and *)
(* any that is unanswered was issued while the session was down).          *)
C5_ManualSerialized == manualInFlight <= 1 /\ (manualInFlight > 0 => ~steamID)

(* C6: every loggedOn that follows a drop while games are being idled,    *)
(* reached by the native relogin or by manualReconnect, comes with a       *)
(* gamesPlayed call carrying the current Active Set.                       *)
C6_ReappliedOnReconnect ==
  reconnected /\ currentIds # <<>> =>
    out # <<>> /\ \A k \in 1..Len(out) : out[k] = IdlingList(currentIds)

(* C7, as stated: when a manual reconnect succeeds after a drop, no        *)
(* discovery is invoked, the Active Set is not modified, and the declared  *)
(* list is the first 32 ids of the Active Set held at the moment of the    *)
(* drop.                                                                   *)
C7_DeclaresSetAtDrop ==
  [][reconnected' /\ out' # <<>> =>
       /\ currentIds' = currentIds
       /\ <<startDisc', webDisc', refr'>> = <<startDisc, webDisc, refr>>
       /\ \A k \in 1..Len(out') : out'[k] = IdlingList(idsAtDrop)]_vars

(* C7, amended: when a manual reconnect succeeds after a drop, no          *)
(* discovery is invoked, the Active Set is not modified, and the declared  *)
(* list is the first 32 ids of the Active Set as it is at the moment the   *)
(* reconnect succeeds.                                                     *)
C7_DeclaresCurrentSet ==
  [][reconnected' /\ out' # <<>> =>
       /\ currentIds' = currentIds
       /\ <<startDisc', webDisc', refr'>> = <<startDisc, webDisc, refr>>
       /\ \A k \in 1..Len(out') : out'[k] = IdlingList(currentIds)]_vars

(* a manual reconnect has just succeeded and declared a non-empty list *)
C7_Witness == reconnected /\ NonEmptyCall

(* C8: when start() completes with a non-empty candidate list c, the       *)
(* Active Set is the first min(|c|, targetParallel) ids of c, gamesPlayed  *)
(* has been called exactly once, with those ids, and the periodic timer is *)
(* armed.                                                                  *)
C8_StartFillsSet ==
  \A c \in candidates :
    c # <<>> /\ running =>
      /\ currentIds = Take(c, targetParallel)
      /\ out = <<IdlingList(currentIds)>>
      /\ gamesPlayedCalls = 1
      /\ intervalHandle

(* C9: after start() has obtained an empty candidate list, no timer is     *)
(* armed, no id enters the Active Set and no gamesPlayed call declares a   *)
(* game.                                                                   *)
C9_EmptyStartStaysIdle ==
  mainPc = "empty" => currentIds = <<>> /\ ~NonEmptyCall /\ ~intervalHandle

(* C10: in a refresh whose fetchBadges succeeded, the Active Set after the *)
(* removal loop is the previous one minus the ids that are in              *)
(* everRemaining and not in the new remainingSet, and the top-up discovery *)
(* is started exactly when the resulting size is below targetParallel.     *)
C10_RemovalThenTopUp ==
  [][\A r \in removal' :
       /\ currentIds' = SelectSeq2(currentIds,
            {id \in Range(currentIds) : ~(id \in everRemaining' /\ id \notin r.remainingSet)})
       /\ (TopUps(refr') = TopUps(refr) + 1) <=> (Len(currentIds') < targetParallel)
       /\ TopUps(refr') \in {TopUps(refr), TopUps(refr) + 1}]_vars

(* a refresh has just removed an id and started its top-up discovery *)
C10_Witness ==
  \E r \in removal :
    /\ Len(currentIds) < Len(r.before)
    /\ \E rec \in BagToSet(refr) : rec.pc = "topup" /\ rec.d = DiscStart

C12_FailedDiscoveryEndsStart ==
  [][mainPc = "discover" /\ startDisc.pc = "fetch" /\ candidates' = {<<>>} =>
       /\ mainPc' = "empty"
       /\ out' = <<>>
       /\ UNCHANGED <<currentIds, loopVars, gamesPlayedCalls>>]_vars

(* start() has just returned on the empty list of a discovery whose fetch   *)
(* failed (broad mode was never entered)                                    *)
C12_Witness == candidates = {<<>>} /\ ~broadMode /\ mainPc = "empty"

(* no discoverGames invocation is in flight *)
NoDiscovery == startDisc.pc = "off" /\ webDisc.pc = "off" /\ TopUps(refr) = 0

(* C13: if refresh cycles keep computing their remainingSet, the ids of    *)
(* the Active Set all got there by a positive count (broad mode is never   *)
(* entered), and from some cycle on no feed reports a positive count for   *)
(* an id (no cycle's remainingSet holds it and no discovery runs), then    *)
(* the id does not stay in the Active Set for ever.                        *)
C13_ExhaustedIdIsRemoved ==
  \A id \in Ids :
    ( /\ []<>(removal # {})
      /\ []~broadMode
      /\ <>[](NoDiscovery /\ \A r \in removal : id \notin r.remainingSet) )
    => []<>(id \notin Range(currentIds))

(* C14: once stop() has been called, no timer callback starts a refresh   *)
(* and none issues a logOn of manualReconnect.                            *)
C14_StopDisarmsTimers ==
  [][StopCalled =>
       /\ manualInFlight' <= manualInFlight
       /\ BagCardinality(refr') <= BagCardinality(refr)]_vars

(* C15: between two successful logins the manager issues at most          *)
(* maxReconnectAttempts logOn calls from manualReconnect (each accepted    *)
(* call registers one once('loggedOn') listener, and the listeners are     *)
(* gone at the next loggedOn).                                             *)
C15_ReconnectIsBounded == manualListeners <= maxReconnectAttempts

(* C16: whenever the session is down after startLoop has armed the        *)
(* connectivity monitor, with a refresh token stored, a logOn of           *)
(* manualReconnect is eventually issued (unless the session comes back or  *)
(* stop() is called first).                                                *)
C16_ManualReconnectIsIssued ==
  [](~steamID /\ connectivityMonitor /\ refreshToken /\ running
       => <>(steamID \/ manualInFlight > 0 \/ ~running))

(* C17: the step in which stop() runs leaves the Active Set empty and the  *)
(* refresh interval disarmed, and the last gamesPlayed call it made        *)
(* carried the empty list.                                                 *)
C17_StopClears ==
  [][running /\ ~running' =>
       /\ currentIds' = <<>>
       /\ ~intervalHandle'
       /\ out' # <<>> /\ out'[Len(out')] = <<>>]_vars

(* stop() has just run on a manager whose loop was started *)
C17_Witness == StopCalled /\ out = << <<>> >> /\ mainPc = "done" /\ connectivityMonitor

(* C18: an entry of storeCategoryCache, once written, is never removed and *)
(* never changes its value, whatever probes and scans run side by side.    *)
C18_CacheEntriesAreStable ==
  [][\A appid \in DOMAIN storeCategoryCache :
       /\ appid \in DOMAIN storeCategoryCache'
       /\ storeCategoryCache'[appid] = storeCategoryCache[appid]]_vars

(* C19: fetchBadges and fetchOwned answer a transport failure or a non-OK  *)
(* HTTP status with an empty sequence and never raise to their caller: no  *)
(* refresh ever runs its catch block, which only a raise of its fetchBadges *)
(* can lead to.                                                             *)
C19_FetchNeverRaises == ~caught

(* C20: every list handed to gamesPlayed, by applyIdling, by the restart   *)
(* heuristic or by stop(), holds at most 32 ids and no id twice.           *)
C20_DeclaredListsAreBounded ==
  \A k \in 1..Len(out) :
    /\ Len(out[k]) <= DisplayLimit
    /\ \A a, b \in 1..Len(out[k]) : a # b => out[k][a] # out[k][b]

(* applyIdling has declared the first 32 ids of a set that holds more *)
C20_Witness ==
  /\ Len(currentIds) > DisplayLimit
  /\ \E k \in 1..Len(out) : Len(out[k]) = DisplayLimit

C22_ObservedIdsAreEverRemaining ==
  [][/\ (mainPc = "discover" /\ startDisc.pc = "fetch"
          => \A c \in candidates' : Range(c) \subseteq everRemaining')
     /\ \A r \in removal' : r.remainingSet \subseteq everRemaining'
     /\ everRemaining \subseteq everRemaining']_vars

(* C23: the top-up of a refresh cycle does not add an id that the same     *)
(* cycle removed as exhausted: in the step in which a cycle's top-up       *)
(* discovery ends, no id the cycle removed enters the Active Set.          *)
C23_TopUpAddsUnusedIds ==
  [][\A rec \in BagToSet(refr) :
       rec.pc = "topup" /\ CopiesIn(rec, refr') < CopiesIn(rec, refr)
       => (Range(currentIds') \ Range(currentIds)) \cap rec.removed = {}]_vars

(* C24: a refresh removes an id of the Active Set as exhausted only when   *)
(* the feed of the cycle carries a remaining count of zero for it, not     *)
(* when the count is unknown (no badge for the id, or a badge without the  *)
(* field).                                                                 *)
C24_UnknownIsNotZero ==
  [][\A r \in removal' :
       \A id \in Range(r.before) \ Range(currentIds') : id \in r.zeroSet]_vars

(* the ids for which both the API feed and the community feed of ranking r *)
(* carry a remaining count                                                 *)
BothReport(r) ==
  {id \in Ids : IsNumber(MapGet(r.badges, id).rem)
                 /\ IsNumber(MapGet(r.communityBadges, id).rem)}

(* C25 as stated: with the web cookies there, for an id that both feeds    *)
(* report a remaining count for, discovery works with the count of the     *)
(* community (document) feed, whatever the feeds hold.                     *)
C25_DocumentValueWins ==
  \A r \in Ranked : webCookies =>
    \A id \in BothReport(r) :
      MapGet(r.merged, id).rem = MapGet(r.communityBadges, id).rem

(* C25 as amended: with the web cookies there and no positive count in the *)
(* API feed, for an id that both feeds report a remaining count for,       *)
(* discovery works with the count of the community (document) feed.        *)
C25_DocumentValueWinsWithoutApiHits ==
  \A r \in Ranked : webCookies /\ ApiRemainingCount(r.badges) = 0 =>
    \A id \in BothReport(r) :
      MapGet(r.merged, id).rem = MapGet(r.communityBadges, id).rem

(* the API feed says zero for an id, the community feed says more, and the *)
(* id is a direct hit                                                      *)
C25_Witness ==
  \E r \in Ranked : \E id \in BothReport(r) :
    /\ webCookies
    /\ MapGet(r.badges, id).rem = 0
    /\ MapGet(r.communityBadges, id).rem > 0
    /\ id \in Range(r.direct)

(* C26 as stated: a discovery that finds fewer direct hits than            *)
(* targetParallel, none or some, runs the scan of the owned library.       *)
C26_ScanWheneverShort ==
  [][\A r \in ranking' :
       r.pc = "ranked" /\ Len(r.direct) < targetParallel => ScanCalled(r.direct)']_vars

(* C26 as amended: a discovery that finds fewer direct hits than           *)
(* targetParallel runs the scan of the owned library when it finds none,   *)
(* or when broad mode was enabled before it.                               *)
C26_ScanWhenShortInBroadMode ==
  [][\A r \in ranking' :
       /\ r.pc = "ranked"
       /\ Len(r.direct) < targetParallel
       /\ (r.direct = <<>> \/ broadMode)
       => ScanCalled(r.direct)']_vars

(* a discovery with a direct hit, fewer than targetParallel, has gone on *)
(* to the scan                                                           *)
C26_Witness ==
  \E r \in Ranked :
    /\ r.direct # <<>>
    /\ Len(r.direct) < targetParallel
    /\ ScanCalled(r.direct)

(* badge a ranks before badge b: more hours on record, a badge without    *)
(* hours ranking below every badge with hours; at equal hours more drops *)
(* remaining; at equal drops the smaller appid                           *)
RanksBefore(a, b) ==
  \/ IsNumber(a.hours) /\ ~IsNumber(b.hours)
  \/ IsNumber(a.hours) /\ IsNumber(b.hours) /\ a.hours > b.hours
  \/ /\ a.hours = b.hours
     /\ \/ a.rem > b.rem
        \/ a.rem = b.rem /\ a.appid < b.appid

C28_ScanResultIsDeterministic ==
  \A k1, k2 \in ScanOwners :
    /\ scans[k1].pc = "done" /\ scans[k2].pc = "done"
    /\ scans[k1].ordered = scans[k2].ordered
    /\ scans[k1].probed = Range(scans[k1].ordered)
    /\ scans[k2].probed = Range(scans[k2].ordered)
    /\ Range(scans[k1].found) = Range(scans[k2].found)
    /\ LimitNeeded(k1) = LimitNeeded(k2)
    => scans[k1].found = scans[k2].found

(* C29: a step in which a scan starts a batch of probes leaves every       *)
(* classification resolved so far in the cache file, with the value the    *)
(* cache holds for it.                                                     *)
C29_ResolvedIsOnDiskAtBatchStart ==
  [][\A k \in ScanOwners :
       scans'[k].idx > scans[k].idx
       => \A appid \in DOMAIN storeCategoryCache' :
            \E onDisk \in cacheFile' :
              appid \in DOMAIN onDisk /\ onDisk[appid] = storeCategoryCache'[appid]]_vars

(* the capability probes in flight, over every scan in progress *)
ProbesInFlight ==
  Cardinality(scans["start"].inflight) + Cardinality(scans["web"].inflight)

(* C30: at any time at most concurrency (6) capability probes are in       *)
(* flight, also when the scan of start's discovery and the scan of the     *)
(* webSession handler's discovery overlap.                                 *)
C30_AtMostSixProbesInFlight == ProbesInFlight <= concurrency

(* the capable ids of found that the scan of owner k had asked about       *)
(* before position idx of its catalog                                      *)
FoundUpTo(found, ordered, idx) ==
  Cardinality({p \in 1..idx : ordered[p] \in Range(found)})

(* C31: a scan whose probes all return ends; the position it has reached   *)
(* in its catalog, which bounds the probes it has sent, is at most the     *)
(* catalog size and at most overallCap (2400); and a step starts a further *)
(* batch only while the capable ids found so far are fewer than the        *)
(* quota discoverGames asked for.                                          *)
C31_ScanBudget ==
  /\ [](/\ Cardinality(scans["start"].probed) <= scans["start"].idx
        /\ scans["start"].idx <= Len(scans["start"].ordered)
        /\ scans["start"].idx <= overallCap)
  /\ [][scans["start"].pc = "probing" /\ scans'["start"].idx > scans["start"].idx
        => FoundUpTo(scans'["start"].found, scans["start"].ordered, scans["start"].idx)
             < LimitNeeded("start")]_vars
  /\ (scans["start"].pc = "probing" ~> scans["start"].pc = "done")

(* a scan of a catalog longer than overallCap has ended at overallCap, *)
(* after waiting for probes                                            *)
C31_Witness ==
  /\ scans["start"].pc = "done"
  /\ Len(scans["start"].ordered) > overallCap
  /\ scans["start"].idx = overallCap
  /\ scans["start"].probed # {}

(* C32: for each badge block of a parsed page the remaining count of its   *)
(* record is 0 with the no-drops marker, else N with an 'N card drops      *)
(* remaining' phrase, else max(0, earned - received) when both counts are  *)
(* there, else unknown.                                                    *)
C32_ParsedAsDescribed ==
  \A r \in ranking :
    r.pc = "parsed"
    => \A k \in 1..Len(r.page) :
         LET block == r.page[k]
             diff == block.earned - block.received
         IN r.communityBadges[k].rem =
              IF block.marker THEN 0
              ELSE IF IsNumber(block.phrase) THEN block.phrase
              ELSE IF IsNumber(block.earned) /\ IsNumber(block.received)
              THEN (IF diff > 0 THEN diff ELSE 0)
              ELSE None

(* C33: the restart heuristic does not change the Active Set, and when its *)
(* 3 s timer fires, the one list it declares is the first 32 ids of the    *)
(* Active Set.                                                             *)
C33_RestartRedeclaresActiveSet ==
  [][Len(restartTimers') < Len(restartTimers)
     => /\ currentIds' = currentIds
        /\ out' = <<IdlingList(currentIds')>>]_vars

(* C34: a reconnection that follows manual reconnect attempts re-applies   *)
(* the Active Set exactly once, however many attempts were issued or       *)
(* failed during the outage.                                               *)
C34_OneApplyPerReconnection ==
  [][~steamID /\ steamID' /\ manualListeners > 0 => Len(out') = 1]_vars

(* C35: whenever the manager is running with a non-empty Active Set, the   *)
(* refresh interval and the connectivity monitor are armed.                *)
C35_IdlingIsSupervised ==
  running /\ currentIds # <<>> => intervalHandle /\ connectivityMonitor

(* C36: in the draft manager a refresh removes an active id only if a      *)
(* badge feed had shown that id with drops left before; an id that came    *)
(* from the unplayed-games heuristic and never showed a remaining count    *)
(* stays.                                                                  *)
C36_DraftRemovesOnlySeenIds ==
  [][running'
     => \A id \in Range(currentIds) \ Range(currentIds') : id \in everRemaining]_vars

====
